---------------------------- MODULE Spec2Model ----------------------------
(***************************************************************************)
(* Catalog back end (Category -> Subcategory -> Product): the request      *)
(* handlers of backend/controllers, run against the document store.        *)
(*                                                                         *)
(* The store is modelled at the interface the handlers use: three          *)
(* collections, each a function from the ids of the stored documents to    *)
(* the fields the handlers read or write.                                  *)
(*                                                                         *)
(* The modules are modelled as they are written.  A request for the       *)
(* catalog goes through the route module of its collection, and each of    *)
(* the three route modules throws when it is required: no route is         *)
(* defined, and neither a middleware nor a handler runs.  On the user      *)
(* side a handler is one action per store call it awaits.                  *)
(***************************************************************************)
EXTENDS Integers, FiniteSets, Sequences, TLC

VARIABLES
    categories,     \* Category collection: id -> [name, descripcion, active]
    subcategories,  \* Subcategory collection: id -> [category, active]
    products,       \* Product collection: id -> [category, subcategory, active]
    rq,             \* per request slot: the request being served and its response
    users,          \* User collection: id -> [username, email, role, active, password]
    nextUser,       \* next User id
    tokens,         \* the token signup issued to each User id: id -> token
    now,            \* the clock, in seconds
    call,           \* the request the server is running, and its response
    waiting,        \* a request set aside while the store call it awaits is pending
    reg             \* per request slot: the registration being served

vars == <<categories, subcategories, products, rq,
          users, nextUser, tokens, now, call, waiting, reg>>
store == <<categories, subcategories, products>>
\* The catalog side and the user side of the server
catalog == <<categories, subcategories, products, rq>>
directory == <<users, nextUser, tokens, now, call, waiting, reg>>

----------------------------------------------------------------------------
(* Bounds *)

\* Largest Category id a request names or the store holds
MaxCat == 2
\* Largest Subcategory id
MaxSub == 2
\* Largest Product id
MaxProd == 1

\* Request slots: the requests the server has in progress at once
Procs == {1, 2}

----------------------------------------------------------------------------
(* Values *)

\* JavaScript undefined: a field the request body does not carry
Undefined == -1
\* Strings as tuples of characters, so that trim() is computed
Blank == " "
RECURSIVE TrimLeft(_)
TrimLeft(s) == IF s # <<>> /\ Head(s) = Blank THEN TrimLeft(Tail(s)) ELSE s
RECURSIVE TrimRight(_)
TrimRight(s) ==
    IF s # <<>> /\ s[Len(s)] = Blank THEN TrimRight(SubSeq(s, 1, Len(s) - 1)) ELSE s
\* String.prototype.trim
Trim(s) == TrimRight(TrimLeft(s))

\* Mongoose casts a boolean written to a String path to "true" / "false"
CastString(b) == IF b THEN "true" ELSE "false"

\* The name of the i-th Category the store holds at start: "a", "aa", ...
SeedName(i) == [k \in 1..i |-> "a"]

\* Names a createCategory request may carry
NameInputs == {<<>>, <<" ">>, <<" ", "a">>, <<"a", "a", "a">>}
\* The description a request carries when it carries one
DescriptionInput == <<"d">>

----------------------------------------------------------------------------
(* The documents: whether one counts as active *)

\* Category.active and Subcategory.active are String paths; the listing
\* filter { active: { $ne: false } } keeps every value but "false"
StrActive(doc) == doc.active # CastString(FALSE)
\* Product.active is a Boolean path
BoolActive(doc) == doc.active # FALSE

CatStored(c) == c \in DOMAIN categories
SubStored(s) == s \in DOMAIN subcategories
ProdStored(p) == p \in DOMAIN products

\* Ids a request can name: those of stored documents, and ids under which
\* the collection holds no document
CatIdInputs == 1..MaxCat
SubIdInputs == 1..MaxSub
ProdIdInputs == 1..MaxProd

----------------------------------------------------------------------------
(* Request slots *)

Idle ==
    [op |-> "none", pc |-> "idle", id |-> Undefined, hard |-> FALSE,
     cat |-> Undefined, sub |-> Undefined, hasName |-> FALSE, name |-> <<>>,
     hasDescription |-> FALSE, description |-> <<>>,
     reactivate |-> FALSE, status |-> 0, message |-> "",
     subcategoriesDeactivated |-> Undefined, productsDeactivated |-> Undefined]

\* The slot is free: no request is being served
Free(p) == rq[p].pc = "idle"

----------------
(* Values of the user side *)

\* Largest User id the store hands out
MaxUser == 2
\* How many times the clock advances
MaxTicks == 1

\* models/User.js: the values of the role path
Roles == {"admin", "coordinador", "auxiliar"}

\* A JavaScript value as the middlewares see it: t is its type, s the text
\* of a string, n the number of an ObjectId, a the items of an array
JsUndefined == [t |-> "undefined", s |-> "", n |-> 0, a |-> <<>>]
JsString(str) == [t |-> "string", s |-> str, n |-> 0, a |-> <<>>]
JsArray(items) == [t |-> "array", s |-> "", n |-> 0, a |-> items]
JsId(i) == [t |-> "id", s |-> "", n |-> i, a |-> <<>>]
\* An e-mail address, a string given by its characters
JsEmail(chars) == [t |-> "string", s |-> "", n |-> 0, a |-> chars]

\* ToBoolean
Truthy(x) == x.t \in {"array", "id"} \/ (x.t = "string" /\ (x.s # "" \/ x.a # <<>>))
\* SameValueZero, as Array.prototype.includes applies it: an array is equal
\* to itself only, never to a string
SameValueZero(x, y) == x.t = y.t /\ x.t # "array" /\ x.s = y.s /\ x.n = y.n /\ x.a = y.a
\* Array.prototype.includes
Includes(list, x) == \E i \in 1..Len(list) : SameValueZero(list[i], x)
\* req.<name>: undefined unless a middleware has set the property
Prop(req, name) == IF name \in DOMAIN req THEN req[name] ELSE JsUndefined

\* config/auth.config.js
ConfigSecret == "tusecretoparalostokens"
JwtExpiration == 86400
\* A secret that is not the configured one
OtherSecret == "otro"

\* jwt.sign(payload, secret, { expiresIn })
JwtSign(payload, secret, expiresIn) ==
    [id |-> payload.id, role |-> payload.role, email |-> payload.email,
     exp |-> now + expiresIn, secret |-> secret]
\* jwt.verify(token, secret): the signature, then the expiry
JwtVerifies(tok, secret) == tok.secret = secret /\ ~(now >= tok.exp)

\* Header values are texts: a word, a space and the token, the token
\* standing for one character
BearerWord == <<"B", "e", "a", "r", "e", "r">>
LowerBearerWord == <<"b", "e", "a", "r", "e", "r">>
NoHeader == <<>>
AuthorizationHeader(word, tok) == word \o <<" ">> \o <<tok>>
XAccessTokenHeader(tok) == <<tok>>
\* String.prototype.startsWith, String.prototype.substring
StartsWith(str, prefix) ==
    Len(str) >= Len(prefix) /\ SubSeq(str, 1, Len(prefix)) = prefix
Substring(str, from) == SubSeq(str, from + 1, Len(str))

\* bcrypt.hash of a plaintext, and a plaintext stored as it was sent
BcryptHash(text) == [alg |-> "bcrypt", text |-> text]
Plaintext(text) == [alg |-> "none", text |-> text]
\* bcrypt.compare(text, stored)
BcryptCompare(text, stored) == stored.alg = "bcrypt" /\ stored.text = text
PasswordInputs == {"clave1"}
\* The passwords a login may carry: the one the accounts have, and another
LoginPasswordInputs == PasswordInputs \cup {"clave2"}

\* String.prototype.toLowerCase, on the letters the inputs are made of
LowerChar(ch) == IF ch = "A" THEN "a" ELSE IF ch = "B" THEN "b" ELSE ch
ToLowerCase(str) == [i \in 1..Len(str) |-> LowerChar(str[i])]

\* The rest of an e-mail address after its local part
MailDomain == <<"@", "x", ".", "c">>
\* The username and the e-mail address of the account that gets id i, where
\* the requests are not about names: "a" and "a@x.c", "aa" and "aa@x.c", ...
AccountUsername(i) == SeedName(i)
AccountEmail(i) == SeedName(i) \o MailDomain

UserStored(u) == u \in DOMAIN users
UserIdInputs == 1..(nextUser - 1)

\* No request on an authenticated route is being served
NoCall ==
    [pc |-> "idle", authorization |-> NoHeader, xAccessToken |-> NoHeader,
     token |-> NoHeader, req |-> <<>>, op |-> "none", roles |-> <<>>,
     id |-> 0, hard |-> FALSE, body |-> [role |-> "", password |-> "", hasActive |-> FALSE, active |-> FALSE],
     username |-> <<>>, email |-> <<>>,
     status |-> 0, message |-> "", messsage |-> "", issued |-> <<>>,
     verified |-> FALSE, allowed |-> FALSE, data |-> {}, wrote |-> FALSE]

\* A field the request body does not carry
NoField == ""
\* The body of a request on a user route
Body(role, password, hasActive, active) ==
    [role |-> role, password |-> password, hasActive |-> hasActive, active |-> active]

\* No registration is being served in the slot
NoRegistration ==
    [pc |-> "idle", username |-> <<>>, email |-> <<>>, role |-> JsUndefined, password |-> NoField,
     status |-> 0, message |-> "", messsage |-> "", id |-> 0, issued |-> <<>>]

\* The request as the route's handlers get it after verifyTokenfn: they
\* read req.userId, req.userRole, req.params, req.query and req.body, and
\* never the headers
Routed(c) ==
    [c EXCEPT !.authorization = NoHeader, !.xAccessToken = NoHeader, !.token = NoHeader]

----------------------------------------------------------------------------
(* Init: the store as the server finds it.  The documents' references are *)
(* consistent, and a document is active only under active parents.         *)

CatalogInit ==
    /\ \E nc \in 0..MaxCat, ns \in 0..MaxSub, np \in 0..MaxProd :
         \E ca \in [1..nc -> BOOLEAN], sc \in [1..ns -> 1..nc], sa \in [1..ns -> BOOLEAN],
            ps \in [1..np -> 1..ns], pa \in [1..np -> BOOLEAN] :
           /\ \A s \in 1..ns : sa[s] => ca[sc[s]]
           /\ \A p \in 1..np : pa[p] => sa[ps[p]]
           /\ categories = [c \in 1..nc |->
                              [name |-> SeedName(c), descripcion |-> SeedName(c),
                               active |-> CastString(ca[c])]]
           /\ subcategories = [s \in 1..ns |->
                                 [category |-> sc[s], active |-> CastString(sa[s])]]
           /\ products = [p \in 1..np |->
                            [category |-> sc[ps[p]], subcategory |-> ps[p], active |-> pa[p]]]
    /\ rq = [p \in Procs |-> Idle]

\* No account yet, no request on an authenticated route
DirectoryIdle ==
    /\ users = <<>>
    /\ nextUser = 1
    /\ tokens = <<>>
    /\ now = 0
    /\ call = NoCall
    /\ waiting = NoCall
    /\ reg = [p \in Procs |-> NoRegistration]

Init == CatalogInit /\ DirectoryIdle

----------------------------------------------------------------------------
(* The modules of the catalogue: what require() of each does *)

\* The properties of mongoose.Schema that hold the schema types:
\* Schema.Types and Schema.ObjectId; any other property is undefined
SchemaStatics == {"Types", "ObjectId"}

\* The properties of mongoose.Schema through which a model's schema reads
\* the ObjectId type of its reference paths: mongoose.Schema.Type.ObjectId in
\* subcategorySchema (category) and in productSchema (category, subcategory,
\* createBy); categorySchema and userSchema have no reference path
ReferenceTypeStatics(model) ==
    IF model \in {"Subcategory", "Product"} THEN {"Type"} ELSE {}

\* require(model): the module builds its schema at load; reading ObjectId
\* of an undefined property throws TypeError, the module is not cached and
\* every require of it throws
ModelLoads(model) == ReferenceTypeStatics(model) \subseteq SchemaStatics

\* The message of that TypeError
LoadError == "Cannot read properties of undefined (reading 'ObjectId')"

\* The models a controller requires in its first lines
ControllerModels(controller) ==
    IF controller = "subcategoryController" THEN {"Subcategory", "Category"}
    ELSE IF controller = "productController" THEN {"Subcategory", "Category", "Product"}
    ELSE {"Category"}

\* require(controller)
ControllerLoads(controller) == \A model \in ControllerModels(controller) : ModelLoads(model)

\* The handlers a controller would export
ControllerHandlers(controller) ==
    IF controller = "subcategoryController"
    THEN {"createSubcategory", "getSubcategories", "getSubcategoryById",
          "updateSubcategory", "deleteSubcategory"}
    ELSE IF controller = "productController"
    THEN {"createProduct", "getProducts", "getProductById", "updateProduct", "deleteProduct"}
    ELSE {"createCategory", "getCategories", "getCategoryById", "updateCategory",
          "deleteCategory"}

----------------------------------------------------------------------------
(* The route modules of the catalogue *)

\* The route modules: the category routes, the subcategory routes and
\* routes/productRoutes.js
Routers == {"categoryRoutes", "subcategoryRoutes", "productRoutes"}

\* The controller a route module requires
RouterController(router) ==
    IF router = "subcategoryRoutes" THEN "subcategoryController"
    ELSE IF router = "productRoutes" THEN "productController"
    ELSE "categoryController"

\* The names a route module declares.  The category routes declare no
\* checkRole; the two others bind it to what require('../middlewares/role')
\* returns
RouterBindings(router) ==
    IF router = "categoryRoutes"
    THEN {"express", "router", "categoryController", "verifyToken"}
    ELSE {"express", "router", RouterController(router), "check", "verifyToken", "checkRole"}

\* What middlewares/authJwt.js and middlewares/role.js export
AuthJwtExports == {"verifyTokenfn"}
RoleExports == {"checkRole", "isAdmin", "isCoordinador", "isAuxiliar"}

\* typeof require('../middlewares/role'): the module exports an object
RoleModuleType == IF RoleExports = {} THEN "undefined" ELSE "object"

\* require(router) runs the module from its first line: the require of the
\* controller, then the route definitions, whose arguments are evaluated as
\* each is defined; the first defines a gated route and calls checkRole(...).
\* The text is the message of the error the module throws, the empty text
\* when it loads
RouterLoadError(router) ==
    IF ~ControllerLoads(RouterController(router)) THEN LoadError
    ELSE IF "checkRole" \notin RouterBindings(router) THEN "checkRole is not defined"
    ELSE IF RoleModuleType # "function" THEN "checkRole is not a function"
    ELSE IF "verifyToken" \notin AuthJwtExports
    THEN "Route.post() requires a callback function but got a [object Undefined]"
    ELSE ""

RouterLoads(router) == RouterLoadError(router) = ""

\* A request for a route of a router, with what it carries
Request(op, id, hard, cat, sub) ==
    [Idle EXCEPT !.op = op, !.id = id, !.hard = hard, !.cat = cat, !.sub = sub]

\* A request for a route of the router: the route module throws when it is
\* required, so the router has no route, neither verifyToken nor checkRole
\* nor a handler runs, and the request ends with the error of the load,
\* without a response and without a store call
RequireRouter(p, router, r) ==
    /\ Free(p)
    /\ r.op \in ControllerHandlers(RouterController(router))
    /\ ~RouterLoads(router)
    /\ rq' = [rq EXCEPT ![p] = [r EXCEPT !.pc = "thrown", !.message = RouterLoadError(router)]]
    /\ UNCHANGED store

\* The request has ended: the slot is free for the next request
Return(p) ==
    /\ rq[p].pc \in {"done", "thrown"}
    /\ rq' = [rq EXCEPT ![p] = Idle]
    /\ UNCHANGED store

----------------------------------------------------------------------------
(* middlewares/authJwt.js *)

\* verifyTokenfn: the token the two headers yield; no token is the empty text
ExtractToken(authorization, xAccessToken) ==
    IF Len(authorization) > 0 /\ StartsWith(authorization, LowerBearerWord)
    THEN Substring(authorization, 7)
    ELSE IF Len(xAccessToken) > 0 THEN xAccessToken
    ELSE NoHeader

\* A verifier that looks the account up and attaches the role it has now
AttachedIdentityFromStore(decoded) ==
    [userId |-> JsId(decoded.id),
     userRole |-> IF UserStored(decoded.id) THEN JsString(users[decoded.id].role) ELSE JsUndefined,
     userEmail |-> JsEmail(decoded.email)]
\* verifyTokenfn: req.userId, req.userRole, req.userEmail
AttachedIdentity(decoded) ==
    [userId |-> JsId(decoded.id), userRole |-> JsString(decoded.role),
     userEmail |-> JsEmail(decoded.email)]

\* verifyTokenfn
VerifyToken(authorization, xAccessToken) ==
    /\ call.pc = "idle"
    /\ LET token == ExtractToken(authorization, xAccessToken)
           c == [NoCall EXCEPT !.authorization = authorization,
                               !.xAccessToken = xAccessToken, !.token = token]
       IN  call' =
             IF Len(token) = 0
             THEN [c EXCEPT !.pc = "done", !.status = 403, !.messsage = "Token no proporcionado"]
             ELSE IF ~JwtVerifies(token[1], ConfigSecret)
             THEN [c EXCEPT !.pc = "done", !.status = 401, !.message = "Token es invalido o ha expirado"]
             ELSE [c EXCEPT !.pc = "verified", !.verified = TRUE, !.req = AttachedIdentity(token[1])]
    /\ UNCHANGED <<users, nextUser, tokens, now>>

----------------------------------------------------------------------------
(* middlewares/role.js *)

\* Array.prototype.join on a list of texts
RECURSIVE Join(_, _)
Join(list, separator) ==
    IF list = <<>> THEN ""
    ELSE IF Len(list) = 1 THEN list[1]
    ELSE list[1] \o separator \o Join(Tail(list), separator)
\* ToString of an allowed role: a string is itself, an array is its items
\* joined with commas
RoleText(x) == IF x.t = "array" THEN Join(x.a, ",") ELSE x.s

\* checkRole(...allowedRoles)(req, res, next)
CheckRole(allowedRoles, req) ==
    IF ~Truthy(Prop(req, "userRole"))
    THEN [status |-> 401, message |-> "Token invalido o expirado", next |-> FALSE]
    ELSE IF ~Includes(allowedRoles, Prop(req, "uerRole"))
    THEN [status |-> 403,
          message |-> "Permisos insuficientes se requiere: "
                          \o Join([i \in 1..Len(allowedRoles) |-> RoleText(allowedRoles[i])], " o "),
          next |-> FALSE]
    ELSE [status |-> 0, message |-> "", next |-> TRUE]

\* checkRole(...allowedRoles) is called with the request verifyTokenfn
\* passed on
ApplyCheckRole ==
    /\ call.pc = "called"
    /\ LET out == CheckRole(call.roles, call.req) IN
       call' = [call EXCEPT !.pc = "done", !.allowed = out.next, !.status = out.status,
                            !.message = out.message]
    /\ UNCHANGED <<users, nextUser, tokens, now>>

----------------------------------------------------------------------------
(* models/User.js, controllers/authControllers.js *)

\* userSchema.pre('save'): a modified password is replaced by its hash
PreSave(doc, passwordModified) ==
    IF ~passwordModified THEN doc
    ELSE [doc EXCEPT !.password = BcryptHash(@.text)]

\* userSchema: the setters of the username path (trim) and of the email
\* path (lowercase, trim); Mongoose applies them to the values of a document
\* and to the values of a query filter
CastUsername(str) == Trim(str)
CastEmail(str) == Trim(ToLowerCase(str))

\* A role path without its enum
RoleValidatesAnyString(role) == role.t = "string"
\* userSchema: role is a String path with the enum admin, coordinador,
\* auxiliar; an array is not cast to a string
RoleValidates(role) == role.t = "string" /\ role.s \in Roles

\* A collection without the unique indexes
UniqueIndexesAllowAll(doc) == TRUE
\* userSchema: unique: true on username and on email
UniqueIndexesAllow(doc) ==
    \A u \in DOMAIN users : users[u].username # doc.username /\ users[u].email # doc.email

\* new User({ username, email, password, role }): role is the value sent, and
\* the default auxiliar when it is undefined
NewUser(username, email, password, role) ==
    [username |-> CastUsername(username), email |-> CastEmail(email),
     role |-> IF role.t = "undefined" THEN JsString("auxiliar") ELSE role,
     active |-> TRUE, password |-> Plaintext(password)]
\* userSchema: required on username and on email, checked on the value the
\* setters leave; a field that was not sent and an empty text both fail.
\* The passwords of the inputs have six characters and the addresses match
\* the pattern of the email path
RequiredText(chars) == chars # <<>>
UserValidates(user) ==
    RequiredText(user.username) /\ RequiredText(user.email) /\ RoleValidates(user.role)
\* user.save() resolves: the document validates and the indexes take it
UserSaves(user) == UserValidates(user) /\ UniqueIndexesAllow(user)
\* The document user.save() stores
SavedUser(user) == PreSave([user EXCEPT !.role = user.role.s], TRUE)

\* signup, from new User(...) to the response: user.save(), jwt.sign, 200,
\* and the 500 of the catch when save() rejects
SignupOutcome(username, email, role, password) ==
    LET user == NewUser(username, email, password,
                        IF Truthy(role) THEN role ELSE JsString("auxiliar"))
    IN  IF ~UserSaves(user)
        THEN [status |-> 500, message |-> "Error en el registro de usuario!",
              saved |-> <<>>, issued |-> <<>>]
        ELSE [status |-> 200, message |-> "Usuario registrado exitosamente!",
              saved |-> <<SavedUser(user)>>,
              issued |-> <<JwtSign([id |-> nextUser, role |-> SavedUser(user).role,
                                    email |-> SavedUser(user).email],
                                   ConfigSecret, JwtExpiration)>>]

\* signup, for an account with a name and an address of its own
Signup(role, password) ==
    /\ call.pc = "idle"
    /\ nextUser <= MaxUser
    /\ LET out == SignupOutcome(AccountUsername(nextUser), AccountEmail(nextUser),
                                IF role = NoField THEN JsUndefined ELSE JsString(role), password)
           c == [NoCall EXCEPT !.pc = "done", !.op = "signup",
                               !.body = Body(role, password, FALSE, FALSE),
                               !.status = out.status, !.message = out.message]
       IN  IF out.saved = <<>>
           THEN /\ call' = c
                /\ UNCHANGED <<users, tokens, nextUser>>
           ELSE /\ users' = users @@ (nextUser :> out.saved[1])
                /\ tokens' = tokens @@ (nextUser :> out.issued[1])
                /\ call' = [c EXCEPT !.id = nextUser, !.data = {nextUser}, !.wrote = TRUE]
                /\ nextUser' = nextUser + 1
    /\ UNCHANGED now

\* The names the controller's module binds with require; bcryptjs is bound
\* to brypt
AuthControllerBindings == {"User", "brypt", "jwt", "config"}
\* The query functions of a Mongoose model
ModelFunctions ==
    {"find", "findOne", "findById", "findByIdAndUpdate", "findByIdAndDelete",
     "updateMany", "deleteMany"}
\* Model.<name> is a function
IsModelFunction(name) == name \in ModelFunctions

\* sigin, from the validation of the body to the response.  User.FindOne is
\* not a function of the model: the call throws and the catch answers 500.
\* The statements after it are translated as they are written
SiginResponse(username, email, password) ==
    LET answer(st, msg) == [status |-> st, message |-> msg, issued |-> <<>>]
        found == {u \in DOMAIN users :
                    \/ Len(username) > 0 /\ users[u].username = CastUsername(username)
                    \/ Len(email) > 0 /\ users[u].email = CastEmail(email)}
    IN  IF ~(Len(email) > 0) /\ ~(Len(username) > 0)
        THEN answer(400, "Email o Username requerido!")
        ELSE IF password = NoField
        THEN answer(400, "Contraseña requerida")
        ELSE IF ~IsModelFunction("FindOne")
        THEN answer(500, "Error en el inicio de sesión!")
        ELSE IF found = {}
        THEN answer(400, "Usuario no encontrado")
        ELSE LET u == CHOOSE x \in found : \A y \in found : x <= y IN
             IF users[u].password.text = NoField
             THEN answer(400, "El usuario no tiene contraseña!")
             ELSE IF "bcrypt" \notin AuthControllerBindings
             THEN answer(500, "Error en el inicio de sesión!")
             ELSE IF ~BcryptCompare(password, users[u].password)
             THEN answer(401, "Contraseña incorrecta!")
             ELSE [status |-> 200, message |-> "Inicio de sesi+on exitoso!",
                   issued |-> <<JwtSign([id |-> u, role |-> users[u].role,
                                         email |-> users[u].email],
                                        ConfigSecret, JwtExpiration)>>]

\* sigin
Signin(username, email, password) ==
    /\ call.pc = "idle"
    /\ LET out == SiginResponse(username, email, password) IN
       call' = [NoCall EXCEPT !.pc = "done", !.op = "sigin",
                              !.body = Body(NoField, password, FALSE, FALSE),
                              !.username = username, !.email = email,
                              !.status = out.status, !.message = out.message,
                              !.issued = out.issued]
    /\ UNCHANGED <<users, nextUser, tokens, now>>

\* The clock advances by the lifetime of a token
Tick ==
    /\ now < MaxTicks * JwtExpiration
    /\ now' = now + JwtExpiration
    /\ UNCHANGED <<users, nextUser, tokens, call>>

\* The response has been sent: the next request can arrive
ReturnCall ==
    /\ call.pc = "done"
    /\ call' = NoCall
    /\ UNCHANGED <<users, nextUser, tokens, now>>

----------------------------------------------------------------------------
(* Registration: signup of authControllers, called with the body of the    *)
(* request.  middlewares/verifySignUp.js requires '.../models/User', a     *)
(* path no module has: the require throws, the module exports nothing and  *)
(* neither of its two checks stands before signup                          *)

\* signup, for a request with the username, email, role and password sent:
\* new User(...), user.save() and the response
SignupRequest(p, username, email, role, password) ==
    /\ reg[p].pc = "idle"
    /\ nextUser <= MaxUser
    /\ LET out == SignupOutcome(username, email, role, password)
           r == [NoRegistration EXCEPT !.username = username, !.email = email,
                                       !.role = role, !.password = password,
                                       !.pc = "done", !.status = out.status,
                                       !.message = out.message, !.issued = out.issued]
       IN  IF out.saved = <<>>
           THEN /\ reg' = [reg EXCEPT ![p] = r]
                /\ UNCHANGED <<users, tokens, nextUser>>
           ELSE /\ users' = users @@ (nextUser :> out.saved[1])
                /\ tokens' = tokens @@ (nextUser :> out.issued[1])
                /\ reg' = [reg EXCEPT ![p] = [r EXCEPT !.id = nextUser]]
                /\ nextUser' = nextUser + 1
    /\ UNCHANGED <<now, call, waiting>>

\* The response has been sent: the slot is free for the next registration
RegisterReturn(p) ==
    /\ reg[p].pc = "done"
    /\ reg' = [reg EXCEPT ![p] = NoRegistration]
    /\ UNCHANGED <<users, nextUser, tokens, now, call, waiting>>

----------------------------------------------------------------------------
(* controllers/userController.js: the handlers run after verifyTokenfn,     *)
(* which sets req.userId, req.userRole and req.userEmail and no req.user    *)

\* The statuses a request ends with when its handler throws outside try or
\* inside catch: no response at all, or the 500 of the framework
RejectionStatuses == {0, 500}

\* { active: { $ne: false } }
UserActiveFilter(doc, includeInactive) == includeInactive \/ doc.active # FALSE

\* getAllUsers: req.user.role throws when req.user is undefined
GetAllUsers(includeInactive) ==
    /\ call.pc = "verified"
    /\ LET c == [Routed(call) EXCEPT !.pc = "done", !.op = "getAllUsers"] IN
       call' =
         IF Prop(call.req, "user").t = "undefined"
         THEN [c EXCEPT !.status = 500, !.message = "Error al obtener usuarios"]
         ELSE IF Prop(call.req, "user").s = "auxiliar"
         THEN \* { _id: req.UserId }: req.UserId is undefined and matches no _id
              [c EXCEPT !.status = 200, !.data = {}]
         ELSE [c EXCEPT !.status = 200,
                        !.data = {u \in DOMAIN users : UserActiveFilter(users[u], includeInactive)}]
    /\ UNCHANGED <<users, nextUser, tokens, now>>

\* getUserById: const user = await user.findById(...) reads user before it
\* is initialised; the ReferenceError is caught and answered 500
GetUserById(id) ==
    /\ call.pc = "verified"
    /\ call' = [Routed(call) EXCEPT !.pc = "done", !.op = "getUserById", !.id = id,
                            !.status = 500,
                            !.message = "Error al encontrar al usuario especifico"]
    /\ UNCHANGED <<users, nextUser, tokens, now>>

\* createUser: new User(...), user.save(), 201
CreateUser(role, password) ==
    /\ call.pc = "verified"
    /\ nextUser <= MaxUser
    /\ LET user == NewUser(AccountUsername(nextUser), AccountEmail(nextUser), password,
                           IF role = NoField THEN JsUndefined ELSE JsString(role))
           c == [Routed(call) EXCEPT !.pc = "done", !.op = "createUser",
                                     !.body = Body(role, password, FALSE, FALSE)]
       IN  IF ~UserSaves(user)
           THEN /\ call' = [c EXCEPT !.status = 500, !.message = "Error al crear el usuario"]
                /\ UNCHANGED <<users, nextUser>>
           ELSE /\ users' = users @@ (nextUser :> SavedUser(user))
                /\ call' = [c EXCEPT !.id = nextUser,
                                     !.status = 201, !.message = "Usuario creado correctamente",
                                     !.data = {nextUser}, !.wrote = TRUE]
                /\ nextUser' = nextUser + 1
    /\ UNCHANGED <<tokens, now>>

\* updateUser: findByIdAndUpdate(id, { $set: req.body }) writes the fields of
\* the body as they were sent; no save hook runs
SetBody(doc, body) ==
    [username |-> doc.username,
     role |-> IF body.role # NoField THEN body.role ELSE doc.role,
     active |-> IF body.hasActive THEN body.active ELSE doc.active,
     password |-> IF body.password # NoField THEN Plaintext(body.password) ELSE doc.password,
     email |-> doc.email]

\* updateUser
UpdateUser(id, body) ==
    /\ call.pc = "verified"
    /\ LET c == [Routed(call) EXCEPT !.pc = "done", !.op = "updateUser", !.id = id, !.body = body]
           isAuxiliar == SameValueZero(Prop(call.req, "userRole"), JsString("auxiliar"))
       IN  IF isAuxiliar /\ Prop(call.req, "userId").n # id
           THEN /\ call' = [c EXCEPT !.status = 403,
                                     !.message = "No tienes permiso para actualizar este usuario"]
                /\ UNCHANGED users
           ELSE IF isAuxiliar /\ body.role # NoField
           THEN /\ call' = [c EXCEPT !.status = 403,
                                     !.message = "No tienes permiso para modificar su rol"]
                /\ UNCHANGED users
           ELSE IF ~UserStored(id)
           THEN /\ call' = [c EXCEPT !.status = 404, !.message = "Usuario no encontrado"]
                /\ UNCHANGED users
           ELSE /\ users' = [users EXCEPT ![id] = SetBody(@, body)]
                /\ call' = [c EXCEPT !.status = 200, !.message = "Usuario actualizado correctamente",
                                     !.data = {id}, !.wrote = TRUE]
    /\ UNCHANGED <<nextUser, tokens, now>>

\* deleteUser, from the arrival of the request to the answer of
\* User.findById: for an admin caller userToDelete.role.__id.toString()
\* throws (role is a string), and the catch throws in turn on message.error
DeleteUser(id, hard) ==
    /\ call.pc = "verified"
    /\ LET c == [Routed(call) EXCEPT !.pc = "done", !.op = "deleteUser", !.id = id, !.hard = hard] IN
       IF ~UserStored(id)
       THEN call' = [c EXCEPT !.status = 404, !.message = "Usuario no encontrado"]
       ELSE IF SameValueZero(Prop(call.req, "userRole"), JsString("admin"))
       THEN \E st \in RejectionStatuses : call' = [c EXCEPT !.status = st]
       ELSE call' = [c EXCEPT !.pc = "du_write"]
    /\ UNCHANGED <<users, nextUser, tokens, now>>

\* deleteUser: User.findByIdAndDelete(id), or userToDelete.save() with
\* active = false, and the response that follows
DeleteUserWrite ==
    /\ call.pc = "du_write"
    /\ LET id == call.id
           c == [call EXCEPT !.pc = "done"] IN
       IF call.hard
       THEN /\ users' = [u \in DOMAIN users \ {id} |-> users[u]]
            /\ call' = [c EXCEPT !.status = 200, !.message = "Usuario eliminado permanentemente",
                                 !.data = {id}, !.wrote = TRUE]
       ELSE IF ~UserStored(id)
       THEN \* save() finds no document to update and rejects
            /\ \E st \in RejectionStatuses : call' = [c EXCEPT !.status = st]
            /\ UNCHANGED users
       ELSE /\ users' = [users EXCEPT ![id] = PreSave([@ EXCEPT !.active = FALSE], FALSE)]
            /\ call' = [c EXCEPT !.status = 200, !.message = "Usuario desativdo",
                                 !.data = {id}, !.wrote = TRUE]
    /\ UNCHANGED <<nextUser, tokens, now>>

\* deleteUser awaits User.findById and then its write, and the server runs
\* other requests while a store call is pending: the request that awaits
\* its write is set aside, or taken up again, or changes places with
\* another deleteUser that awaits its write
Interleave ==
    /\ call.pc \in {"idle", "du_write"}
    /\ waiting.pc \in {"idle", "du_write"}
    /\ call # waiting
    /\ call' = waiting
    /\ waiting' = call
    /\ UNCHANGED <<users, nextUser, tokens, now>>

----------------------------------------------------------------------------
(* Specifications *)

BodyCatInputs == CatIdInputs \cup {Undefined}
BodySubInputs == SubIdInputs \cup {Undefined}

\* The requests for the routes of the category router: the name a
\* createCategory carries is missing or one of NameInputs
CategoryRequests ==
    {[Request("createCategory", Undefined, FALSE, Undefined, Undefined)
         EXCEPT !.hasDescription = TRUE, !.description = DescriptionInput]}
        \cup {[Request("createCategory", Undefined, FALSE, Undefined, Undefined)
                 EXCEPT !.hasName = TRUE, !.name = name,
                        !.hasDescription = TRUE, !.description = DescriptionInput] :
                 name \in NameInputs}
        \cup {Request("getCategories", Undefined, FALSE, Undefined, Undefined)}
        \cup {Request("getCategoryById", id, FALSE, Undefined, Undefined) : id \in CatIdInputs}
        \cup {[Request("updateCategory", id, FALSE, Undefined, Undefined)
                 EXCEPT !.reactivate = reactivate] :
                 id \in CatIdInputs, reactivate \in BOOLEAN}
        \cup {Request("deleteCategory", id, hard, Undefined, Undefined) :
                 id \in CatIdInputs, hard \in BOOLEAN}

\* The requests for the routes of the subcategory router
SubcategoryRequests ==
    {Request("createSubcategory", Undefined, FALSE, cat, Undefined) : cat \in BodyCatInputs}
        \cup {Request("getSubcategories", Undefined, FALSE, Undefined, Undefined)}
        \cup {Request("getSubcategoryById", id, FALSE, Undefined, Undefined) : id \in SubIdInputs}
        \cup {Request("updateSubcategory", id, FALSE, cat, Undefined) :
                 id \in SubIdInputs, cat \in BodyCatInputs}
        \cup {Request("deleteSubcategory", id, hard, Undefined, Undefined) :
                 id \in SubIdInputs, hard \in BOOLEAN}

\* The requests for the routes of the product router
ProductRequests ==
    {Request("createProduct", Undefined, FALSE, cat, sub) :
        cat \in BodyCatInputs, sub \in BodySubInputs}
        \cup {Request("getProducts", Undefined, FALSE, Undefined, Undefined)}
        \cup {Request("getProductById", id, FALSE, Undefined, Undefined) : id \in ProdIdInputs}
        \cup {Request("updateProduct", id, FALSE, cat, sub) :
                 id \in ProdIdInputs, cat \in BodyCatInputs, sub \in BodySubInputs}
        \cup {Request("deleteProduct", id, hard, Undefined, Undefined) :
                 id \in ProdIdInputs, hard \in BOOLEAN}

\* The requests for the routes of a router
RouterRequests(router) ==
    IF router = "subcategoryRoutes" THEN SubcategoryRequests
    ELSE IF router = "productRoutes" THEN ProductRequests
    ELSE CategoryRequests

\* A request arrives in a free slot, whatever the other slots are serving
Start(p) ==
    \E router \in Routers : \E r \in RouterRequests(router) :
        RequireRouter(p, router, r) /\ UNCHANGED directory

\* The request has ended
Finish(p) == Return(p) /\ UNCHANGED directory

Next == \E p \in Procs : Start(p) \/ Finish(p)

Spec == Init /\ [][Next]_vars
\* signup and sigin, and the requests that pass through verifyTokenfn to a
\* handler of userController
CatalogEmpty ==
    /\ categories = <<>> /\ subcategories = <<>> /\ products = <<>>
    /\ rq = [p \in Procs |-> Idle]

AuthInit == CatalogEmpty /\ DirectoryIdle

\* The tokens a request may carry: those signup issued, and one that claims
\* the admin role and is signed with another secret
TokenInputs ==
    {tokens[u] : u \in DOMAIN tokens}
        \cup {JwtSign([id |-> 1, role |-> "admin", email |-> AccountEmail(1)],
                         OtherSecret, JwtExpiration)}
\* The Authorization and x-access-token headers a request may carry: none,
\* one of the two, or Authorization: Bearer with one token and x-access-token
\* with another
HeaderInputs ==
    {<<NoHeader, NoHeader>>}
        \cup {<<AuthorizationHeader(word, tok), NoHeader>> :
                 word \in {BearerWord, LowerBearerWord}, tok \in TokenInputs}
        \cup {<<NoHeader, XAccessTokenHeader(tok)>> : tok \in TokenInputs}
        \cup {<<AuthorizationHeader(BearerWord, h[1]), XAccessTokenHeader(h[2])>> :
                 h \in {x \in TokenInputs \X TokenInputs : x[1] # x[2]}}
RoleInputs == Roles \cup {NoField}
\* The username and the e-mail address a login may carry: the username of
\* an account or one more, the address of the first account, or neither
LoginInputs ==
    {<<AccountUsername(i), <<>>>> : i \in 1..(MaxUser + 1)}
        \cup {<< <<>>, AccountEmail(1)>>, << <<>>, <<>> >>}
\* The bodies an updateUser may carry: a role
UserBodyInputs ==
    {Body(role, NoField, FALSE, FALSE) : role \in Roles}
        \cup {Body(NoField, NoField, TRUE, FALSE)}

AuthNext ==
    \/ \E role \in RoleInputs, password \in PasswordInputs :
         Signup(role, password) /\ UNCHANGED <<catalog, reg, waiting>>
    \/ \E login \in LoginInputs, password \in LoginPasswordInputs \cup {NoField} :
         Signin(login[1], login[2], password) /\ UNCHANGED <<catalog, reg, waiting>>
    \/ \E headers \in HeaderInputs :
         VerifyToken(headers[1], headers[2]) /\ UNCHANGED <<catalog, reg, waiting>>
    \/ \E includeInactive \in BOOLEAN :
         GetAllUsers(includeInactive) /\ UNCHANGED <<catalog, reg, waiting>>
    \/ \E id \in UserIdInputs : GetUserById(id) /\ UNCHANGED <<catalog, reg, waiting>>
    \/ \E role \in RoleInputs, password \in PasswordInputs :
         CreateUser(role, password) /\ UNCHANGED <<catalog, reg, waiting>>
    \/ \E id \in UserIdInputs, body \in UserBodyInputs :
         UpdateUser(id, body) /\ UNCHANGED <<catalog, reg, waiting>>
    \/ \E id \in UserIdInputs, hard \in BOOLEAN :
         DeleteUser(id, hard) /\ UNCHANGED <<catalog, reg, waiting>>
    \/ DeleteUserWrite /\ UNCHANGED <<catalog, reg, waiting>>
    \/ Interleave /\ UNCHANGED <<catalog, reg>>
    \/ Tick /\ UNCHANGED <<catalog, reg, waiting>>
    \/ ReturnCall /\ UNCHANGED <<catalog, reg, waiting>>

AuthSpec == AuthInit /\ [][AuthNext]_vars

\* The requests that store a password: signup, createUser, and updateUser
\* with a password in its body
PasswordBodyInputs == {Body(NoField, password, FALSE, FALSE) : password \in PasswordInputs}

PasswordNext ==
    \/ \E role \in RoleInputs, password \in PasswordInputs :
         Signup(role, password) /\ UNCHANGED <<catalog, reg, waiting>>
    \/ \E headers \in HeaderInputs :
         VerifyToken(headers[1], headers[2]) /\ UNCHANGED <<catalog, reg, waiting>>
    \/ \E role \in RoleInputs, password \in PasswordInputs :
         CreateUser(role, password) /\ UNCHANGED <<catalog, reg, waiting>>
    \/ \E id \in UserIdInputs, body \in PasswordBodyInputs :
         UpdateUser(id, body) /\ UNCHANGED <<catalog, reg, waiting>>
    \/ ReturnCall /\ UNCHANGED <<catalog, reg, waiting>>

PasswordSpec == AuthInit /\ [][PasswordNext]_vars

\* Registrations, in two slots
UsernameInputs == {<<"a">>, <<"b">>}
EmailInputs == {<<"a">> \o MailDomain, <<"A">> \o MailDomain, <<"b">> \o MailDomain}
\* The role a registration may carry: none, a role, a word that is no role,
\* and a list with a role and a word that is no role
RegisterRoleInputs ==
    {JsUndefined, JsString("coordinador"), JsString("root"), JsArray(<<"admin", "root">>)}

RegisterNext ==
    \/ \E p \in Procs, username \in UsernameInputs \cup {<<>>}, email \in EmailInputs,
            role \in RegisterRoleInputs, password \in PasswordInputs :
         SignupRequest(p, username, email, role, password) /\ UNCHANGED catalog
    \/ \E p \in Procs : RegisterReturn(p) /\ UNCHANGED catalog

RegisterSpec == AuthInit /\ [][RegisterNext]_vars

\* checkRole as middlewares/role.js exports it, applied to the requests
\* verifyTokenfn passes on and to the arguments the code calls it with: one
\* role (the delete routes, and isAdmin, isCoordinador and isAuxiliar of
\* role.js) or one array of roles (the create and update routes)
DeleteRouteRoles == <<JsString("admin")>>
AllowedRolesInputs ==
    {<<JsString(role)>> : role \in Roles}
        \cup {<<JsArray(<<"admin", "coordinador">>)>>,
              <<JsArray(<<"admin", "coordinador", "auxiliar">>)>>}
\* The requests checkRole may get: one with the identity of a token, and one
\* that did not pass through verifyTokenfn
GateRequestInputs ==
    {AttachedIdentity([id |-> u, role |-> role, email |-> AccountEmail(u)]) :
        u \in 1..(MaxUser + 1), role \in Roles} \cup {<<>>}

GateInit ==
    /\ CatalogEmpty
    /\ users = <<>> /\ nextUser = 1 /\ tokens = <<>> /\ now = 0
    /\ waiting = NoCall
    /\ reg = [p \in Procs |-> NoRegistration]
    /\ \E req \in GateRequestInputs, roles \in AllowedRolesInputs :
         call = [NoCall EXCEPT !.op = "checkRole", !.pc = "called",
                               !.req = req, !.roles = roles]

GateNext == ApplyCheckRole /\ UNCHANGED <<catalog, reg, waiting>>

GateSpec == GateInit /\ [][GateNext]_vars

----------------------------------------------------------------------------
(* Properties *)

\* The request of slot p for handler op has ended, with a response or without
Ended(p, op) == rq[p].pc \in {"done", "thrown"} /\ rq[p].op = op

\* The step on which the request of slot p ends
Ends(p) == rq[p].pc \notin {"done", "thrown"} /\ rq'[p].pc \in {"done", "thrown"}

\* C1 (as claimed): once a soft delete of a stored Category has completed,
\* the Category, every Subcategory whose category is that Category and every
\* Product whose category is that Category are inactive.
C1_SoftDeleteCategoryCascades ==
    \A p \in Procs :
        (Ended(p, "deleteCategory") /\ ~rq[p].hard /\ CatStored(rq[p].id)) =>
            /\ ~StrActive(categories[rq[p].id])
            /\ \A s \in DOMAIN subcategories :
                 subcategories[s].category = rq[p].id => ~StrActive(subcategories[s])
            /\ \A x \in DOMAIN products :
                 products[x].category = rq[p].id => ~BoolActive(products[x])

\* The Subcategories of Category c, and the Products under it
SubcategoriesOf(c) == {s \in DOMAIN subcategories : subcategories[s].category = c}
ProductsUnder(c) ==
    {x \in DOMAIN products :
        products[x].category = c \/ products[x].subcategory \in SubcategoriesOf(c)}

\* The step on which a hard delete of a Category stored before it ends
HardDeleteCategoryStep ==
    \A p \in Procs :
        (Ends(p) /\ rq'[p].op = "deleteCategory" /\ rq'[p].hard /\ CatStored(rq'[p].id)) =>
            /\ rq'[p].id \notin DOMAIN categories'
            /\ SubcategoriesOf(rq'[p].id) \cap DOMAIN subcategories' = {}
            /\ ProductsUnder(rq'[p].id) \cap DOMAIN products' = {}

\* C3 (as claimed): a hard delete of a Category removes it, every
\* Subcategory whose category it is and every Product of the Category or of
\* one of those Subcategories, so that a lookup by id finds none of them.
C3_HardDeleteCategoryRemovesDescendants == [][HardDeleteCategoryStep]_vars

\* The step on which a soft delete of a stored Subcategory ends
SoftDeleteSubcategoryStep ==
    \A p \in Procs :
        (Ends(p) /\ rq'[p].op = "deleteSubcategory" /\ ~rq'[p].hard /\ SubStored(rq'[p].id)) =>
            LET id == rq'[p].id IN
            /\ id \in DOMAIN subcategories' /\ ~StrActive(subcategories'[id])
            /\ \A x \in DOMAIN products :
                 /\ x \in DOMAIN products'
                 /\ products[x].subcategory = id => ~BoolActive(products'[x])
                 /\ products[x].subcategory # id => products'[x].active = products[x].active

\* C4 (as claimed): a soft delete of a Subcategory leaves it and every
\* Product whose subcategory it is inactive, and the Products of the other
\* Subcategories with the active flag they had.
C4_SoftDeleteSubcategoryCascadesOnlyToItsProducts == [][SoftDeleteSubcategoryStep]_vars

\* The request fails a referential check: a Product under a stored
\* Subcategory of another Category than the stored one it names, or a
\* Subcategory under a Category the store does not hold
FailsReferentialCheck(r) ==
    \/ /\ r.op \in {"createProduct", "updateProduct"}
       /\ CatStored(r.cat) /\ SubStored(r.sub)
       /\ subcategories[r.sub].category # r.cat
    \/ /\ r.op \in {"createSubcategory", "updateSubcategory"}
       /\ r.cat # Undefined /\ ~CatStored(r.cat)

\* The step on which a request that fails a referential check ends
ReferentialAnswerStep ==
    \A p \in Procs :
        (Ends(p) /\ FailsReferentialCheck(rq'[p])) =>
            /\ rq'[p].status >= 400
            /\ store' = store

\* C6 (as claimed): createProduct with a stored Subcategory of another
\* Category than the one it names returns an error and stores no Product;
\* no request that fails a referential check writes.
C6_FailedReferentialCheckWritesNothing == [][ReferentialAnswerStep]_vars

\* The responses that say the document addressed does not exist
NotFoundMessages ==
    {"Categoria no encontrada", "Subcategoria no encontrada", "Producto no encontrado",
     "La categoria no existe", "La categoria padre no existe",
     "La categoria solicitada no existe",
     "La subactegoria no existe o no pertence a la categoria especificada",
     "La subcategoria no existe o no pertenece a la categoria"}

NotFoundOutcome(r) == r.pc = "done" /\ (r.status = 404 \/ r.message \in NotFoundMessages)

\* C7 (as claimed): the Category of every stored Subcategory is stored, and
\* a createSubcategory or updateSubcategory that supplies a Category the
\* store does not hold is refused as such.
C7_SubcategoryCategoryExists ==
    /\ \A s \in DOMAIN subcategories : CatStored(subcategories[s].category)
    /\ \A p \in Procs :
         (/\ rq[p].pc \in {"done", "thrown"}
          /\ rq[p].op \in {"createSubcategory", "updateSubcategory"}
          /\ rq[p].cat # Undefined /\ ~CatStored(rq[p].cat)) =>
             NotFoundOutcome(rq[p])

\* The step on which an update that reactivates a stored, inactive Category ends
ReactivateCategoryStep ==
    \A p \in Procs :
        (/\ Ends(p) /\ rq'[p].op = "updateCategory" /\ rq'[p].reactivate
         /\ CatStored(rq'[p].id) /\ ~StrActive(categories[rq'[p].id])) =>
            LET id == rq'[p].id IN
            /\ id \in DOMAIN categories' /\ StrActive(categories'[id])
            /\ subcategories' = subcategories
            /\ products' = products

\* C8 (as claimed): reactivating a Category that was deactivated with its
\* descendants sets that Category's active flag back to true and leaves its
\* Subcategories and Products as they are.
C8_ReactivateCategoryActivates == [][ReactivateCategoryStep]_vars

\* The request addresses an id under which the collection holds no
\* document, or creates under such a parent
NamesRemoved(r) ==
    \/ r.op \in {"getCategoryById", "updateCategory", "deleteCategory"} /\ ~CatStored(r.id)
    \/ r.op \in {"getSubcategoryById", "updateSubcategory", "deleteSubcategory"} /\ ~SubStored(r.id)
    \/ r.op \in {"getProductById", "updateProduct", "deleteProduct"} /\ ~ProdStored(r.id)
    \/ r.op = "createSubcategory" /\ r.cat # Undefined /\ ~CatStored(r.cat)
    \/ r.op = "createProduct" /\ r.cat # Undefined /\ ~CatStored(r.cat) /\ r.sub # Undefined
    \/ r.op = "createProduct" /\ r.sub # Undefined /\ ~SubStored(r.sub) /\ r.cat # Undefined

\* The step on which a request that names such an id ends
RemovedAnswerStep ==
    \A p \in Procs :
        (Ends(p) /\ NamesRemoved(rq'[p])) =>
            /\ NotFoundOutcome(rq'[p])
            /\ store' = store

\* C9 (as claimed): a request that addresses an id whose document is gone,
\* or creates under such a parent, is answered not-found and changes no
\* stored document.
C9_RemovedIsTerminal == [][RemovedAnswerStep]_vars

\* No stored Subcategory or Product references a parent that is not stored
NoDanglingReference ==
    /\ \A s \in DOMAIN subcategories : CatStored(subcategories[s].category)
    /\ \A x \in DOMAIN products :
         CatStored(products[x].category) /\ SubStored(products[x].subcategory)

\* A hard delete that has ended has deleted the Products, then the
\* Subcategories, then the Category; or the Products, then the Subcategory
HardDeleteRan(r) ==
    /\ (r.op = "deleteCategory" /\ r.hard) =>
         /\ \A x \in DOMAIN products : products[x].category # r.id
         /\ \A s \in DOMAIN subcategories : subcategories[s].category # r.id
         /\ ~CatStored(r.id)
    /\ (r.op = "deleteSubcategory" /\ r.hard) =>
         /\ \A x \in DOMAIN products : products[x].subcategory # r.id
         /\ ~SubStored(r.id)

\* C10 (as claimed): a hard delete deletes the children before the parent,
\* down to the parent itself, and in no state of a hard delete running alone
\* does a stored Product or Subcategory reference a deleted parent.
C10_HardDeleteLeavesNoDanglingReference ==
    /\ NoDanglingReference
    /\ \A p \in Procs : rq[p].pc \in {"done", "thrown"} => HardDeleteRan(rq[p])

\* C26 (as claimed): the response of a soft delete of a stored Category
\* counts the Subcategories and the Products whose category is the Category,
\* whether they were active or not.
C26_SummaryCountsTheCascade ==
    \A p \in Procs :
        (Ended(p, "deleteCategory") /\ ~rq[p].hard /\ CatStored(rq[p].id)) =>
            /\ rq[p].subcategoriesDeactivated =
                 Cardinality({s \in DOMAIN subcategories : subcategories[s].category = rq[p].id})
            /\ rq[p].productsDeactivated =
                 Cardinality({x \in DOMAIN products : products[x].category = rq[p].id})

\* The step on which createCategory answers
CreateCategoryStep ==
    \A p \in Procs :
        (Ends(p) /\ rq'[p].op = "createCategory") =>
            LET name == Trim(rq'[p].name)
                usable == rq'[p].hasName /\ name # <<>>
                inUse == \E c \in DOMAIN categories : categories[c].name = name
            IN  /\ IF usable /\ ~inUse
                   THEN /\ rq'[p].status = 201
                        /\ \E c \in DOMAIN categories' \ DOMAIN categories :
                             /\ DOMAIN categories' = DOMAIN categories \cup {c}
                             /\ categories'[c].name = name
                        /\ \A c \in DOMAIN categories : categories'[c] = categories[c]
                   ELSE rq'[p].status = 400 /\ store' = store
                /\ \A c, d \in DOMAIN categories' :
                     categories'[c].name = categories'[d].name => c = d

\* C27 (as claimed): createCategory with a non-empty string name that is not
\* in use stores exactly one Category with the trimmed name and answers 201;
\* with a missing or blank name, or a name in use, it answers 400 and writes
\* nothing; no two Categories have the same name.
C27_CreateCategory == [][CreateCategoryStep]_vars

\* The request is a soft delete of a stored document that is inactive
RepeatedSoftDelete(r) ==
    /\ ~r.hard
    /\ \/ r.op = "deleteCategory" /\ CatStored(r.id) /\ ~StrActive(categories[r.id])
       \/ r.op = "deleteSubcategory" /\ SubStored(r.id) /\ ~StrActive(subcategories[r.id])
       \/ r.op = "deleteProduct" /\ ProdStored(r.id) /\ ~BoolActive(products[r.id])

\* The step on which a soft delete of an inactive document ends
RepeatedSoftDeleteStep ==
    \A p \in Procs :
        (Ends(p) /\ RepeatedSoftDelete(rq'[p])) =>
            /\ rq'[p].status = 200
            /\ store' = store

\* C30 (as claimed): a soft delete of an inactive Category, Subcategory or
\* Product succeeds and leaves every stored document as it was.
C30_DeactivationIsIdempotent == [][RepeatedSoftDeleteStep]_vars

\* The roles a route supplies to checkRole, as one array or as a single role
RouteAllowedSet(roles) ==
    UNION {IF roles[i].t = "array" THEN {roles[i].a[k] : k \in 1..Len(roles[i].a)}
           ELSE {roles[i].s} : i \in 1..Len(roles)}

\* checkRole has decided on a request that carries the role of a token
GateDone == call.pc = "done" /\ call.op = "checkRole" /\ "userRole" \in DOMAIN call.req

\* C12 (as claimed): the gate passes the request on exactly when the role of
\* the token is one of the roles supplied to checkRole, and answers 403
\* otherwise, for roles supplied as one array and for a single role.
C12_GateAllowsExactlyAllowedRoles ==
    GateDone =>
        IF call.req.userRole.s \in RouteAllowedSet(call.roles)
        THEN call.allowed
        ELSE ~call.allowed /\ call.status = 403

\* C13 (as claimed): with the roles the delete routes of Category,
\* Subcategory and Product supply, a valid token with role auxiliar or
\* coordinador is answered 403 and the handler is not reached, and a valid
\* admin token reaches the delete handler.
C13_OnlyAdminReachesDelete ==
    (GateDone /\ call.roles = DeleteRouteRoles) =>
        /\ call.req.userRole.s \in {"auxiliar", "coordinador"} =>
             ~call.allowed /\ call.status = 403
        /\ call.req.userRole.s = "admin" => call.allowed

\* The step on which verifyTokenfn decides on a request
VerifyStep == call.pc = "idle" /\ call'.pc # "idle" /\ call'.op = "none"

\* The token a header carries: its last item
Carried(header) == header[Len(header)]

\* The outcome of verifyTokenfn for a request without a credential and for
\* a request that carries one token, in either header
VerifyOutcomeStep ==
    VerifyStep =>
        LET authorization == call'.authorization
            xAccessToken == call'.xAccessToken
        IN  /\ (Len(authorization) = 0 /\ Len(xAccessToken) = 0) =>
                 call'.status = 403 /\ ~call'.verified
            /\ (Len(authorization) > 0 /\ Len(xAccessToken) = 0) =>
                 IF JwtVerifies(Carried(authorization), ConfigSecret)
                 THEN TRUE
                 ELSE call'.status = 401 /\ ~call'.verified
            /\ (Len(authorization) = 0 /\ Len(xAccessToken) > 0) =>
                 IF JwtVerifies(Carried(xAccessToken), ConfigSecret)
                 THEN TRUE
                 ELSE call'.status = 401 /\ ~call'.verified
            /\ call'.verified =>
                 \E header \in {authorization, xAccessToken} :
                     Len(header) > 0 /\ JwtVerifies(Carried(header), ConfigSecret)
            /\ call'.pc = "done" => ~call'.verified

\* C14 (as claimed): a request with no credential in either header is
\* answered with the no-credential response; a token with a bad signature
\* or past its expiry is answered with the invalid-token response; the next
\* handler is called only for a validly signed, unexpired token and never
\* on a rejection.
C14_VerifyTokenOutcomes == [][VerifyOutcomeStep]_vars

\* verifyTokenfn has decided and the request is still as it arrived
VerifyDone == call.op = "none" /\ call.pc \in {"verified", "done"}

\* C15 (as claimed): the token verified is the one of the Authorization:
\* Bearer header when that header is present, and the one of the
\* x-access-token header only otherwise.
C15_BearerHeaderFirst ==
    VerifyDone =>
        /\ (Len(call.authorization) > 0 /\ StartsWith(call.authorization, BearerWord)) =>
             call.token = <<Carried(call.authorization)>>
        /\ (Len(call.authorization) = 0 /\ Len(call.xAccessToken) > 0) =>
             call.token = call.xAccessToken

\* What verifyTokenfn attaches for a token that verifies
VerifiedIdentityStep ==
    VerifyStep =>
        LET token == call'.token IN
        (Len(token) > 0 /\ JwtVerifies(token[1], ConfigSecret)) =>
            /\ call'.pc = "verified" /\ call'.verified
            /\ call'.req.userId = JsId(token[1].id)
            /\ call'.req.userRole = JsString(token[1].role)
            /\ call'.req.userEmail = JsEmail(token[1].email)

\* C16: whenever the token verifyTokenfn takes from the request is signed
\* with the configured secret and has not expired, the request is passed on
\* with exactly the id, role and email of the token's claims, whatever the
\* User collection holds by then: the account deactivated, removed or given
\* another role.
C16_IdentityIsTheTokenClaims == [][VerifiedIdentityStep]_vars

\* C16 witness: a request was passed on with the role of the token signup
\* issued, after the account was given another role and deactivated
C16_Witness ==
    /\ call.op = "none" /\ call.pc = "verified"
    /\ \E u \in DOMAIN tokens :
         /\ call.token = <<tokens[u]>>
         /\ call.req.userRole = JsString(tokens[u].role)
         /\ UserStored(u)
         /\ users[u].role # tokens[u].role
         /\ users[u].active = FALSE

\* A handler of userController has answered a request of identity role
HandlerDone(role) ==
    /\ call.pc = "done" /\ call.verified
    /\ call.op \in {"getAllUsers", "getUserById", "updateUser", "deleteUser", "createUser"}
    /\ call.req.userRole.s = role

\* C17 (as claimed): for an auxiliar identity, getUserById and updateUser
\* answer 403 when the target is another id and serve the request when the
\* target is its own stored record; getAllUsers returns at most its own
\* record.
C17_AuxiliarSeesOnlyItself ==
    HandlerDone("auxiliar") =>
        /\ (call.op \in {"getUserById", "updateUser"} /\ call.id # call.req.userId.n) =>
             call.status = 403
        /\ (call.op \in {"getUserById", "updateUser"} /\ call.id = call.req.userId.n
                /\ UserStored(call.id) /\ call.body.role = NoField) =>
             call.status = 200
        /\ call.op = "getAllUsers" => call.data \subseteq {call.req.userId.n}

\* The response is not a success
Denied(c) == c.status \notin 200..299

\* A handler answers a coordinador
CoordinadorStep ==
    (call.pc = "verified" /\ call'.pc = "done" /\ call.req.userRole.s = "coordinador") =>
        /\ \A u \in call'.data \cap DOMAIN users : users[u].role # "admin"
        /\ (call'.op \in {"getUserById", "updateUser"} /\ UserStored(call'.id)
                /\ users[call'.id].role = "admin") =>
             Denied(call') /\ users' = users

\* C18 (as claimed): no response to a coordinador carries a User whose role
\* is admin, and a read or update by a coordinador of a User whose role is
\* admin is denied and leaves the record as it was.
C18_CoordinadorNeverTouchesAdmin == [][CoordinadorStep]_vars

\* deleteUser answers an admin for a stored target
AdminDeleteStep ==
    (call.pc = "verified" /\ call'.pc = "done" /\ call'.op = "deleteUser"
        /\ call.req.userRole.s = "admin" /\ UserStored(call'.id)) =>
        IF call'.id # call.req.userId.n /\ users[call'.id].role = "admin"
        THEN Denied(call') /\ users' = users
        ELSE /\ call'.status = 200
             /\ IF call'.hard THEN call'.id \notin DOMAIN users'
                ELSE users'[call'.id].active = FALSE

\* C19 (as claimed): deleteUser by admin A, soft or hard, is denied and
\* changes nothing when the target is another admin, and succeeds when the
\* target is A itself or a coordinador or auxiliar account.
C19_AdminDeleteSelfProtection == [][AdminDeleteStep]_vars

\* C20 (as claimed): the stored password of every User is a hash, never the
\* plaintext that was sent.
C20_StoredPasswordIsHash ==
    \A u \in DOMAIN users : users[u].password.alg = "bcrypt"

\* updateUser answers a caller whose role is not admin
NonAdminUpdateStep ==
    (call.pc = "verified" /\ call'.pc = "done" /\ call'.op = "updateUser"
        /\ call.req.userRole.s # "admin") =>
        /\ DOMAIN users' = DOMAIN users
        /\ \A u \in DOMAIN users : users'[u].role = "admin" => users[u].role = "admin"
        /\ call.req.userRole.s = "auxiliar" =>
             /\ \A u \in DOMAIN users : users'[u].role = users[u].role
             /\ call'.body.role # NoField => Denied(call') /\ users' = users

\* C28 (as claimed): no updateUser by a caller whose role is not admin makes
\* the role of any User admin: an auxiliar changes no role, its request with
\* a role in the body being denied with nothing written, and a coordinador
\* raises neither its own role nor another User's to admin.
C28_NonAdminNeverMakesAnAdmin == [][NonAdminUpdateStep]_vars

\* A registration is answered
Answered(p) == reg[p].pc # "done" /\ reg'[p].pc = "done"

\* A stored User has the username of the registration, or its e-mail address
\* up to the case of the letters
NameInUse(r) ==
    \E u \in DOMAIN users :
        \/ users[u].username = r.username
        \/ ToLowerCase(users[u].email) = ToLowerCase(r.email)

UniqueRegistrationStep ==
    /\ \A p \in Procs :
         (Answered(p) /\ NameInUse(reg'[p])) => reg'[p].status >= 400 /\ users' = users
    /\ \A u, v \in DOMAIN users' :
         u # v => /\ users'[u].username # users'[v].username
                  /\ ToLowerCase(users'[u].email) # ToLowerCase(users'[v].email)

\* C21: a registration is rejected, and no User is written, when a stored
\* User has its username or has its e-mail address up to the case of the
\* letters; no two stored Users have the same username or the same e-mail
\* address up to case, two registrations served at a time included.
C21_UniqueUsernameAndEmail == [][UniqueRegistrationStep]_vars

\* C21 witness: of two registrations, the first was saved and the second,
\* with another username and the same e-mail address in other case, was
\* rejected by its save.
C21_Witness ==
    /\ reg[1].pc = "done" /\ reg[1].status = 200 /\ UserStored(reg[1].id)
    /\ reg[2].pc = "done" /\ reg[2].status = 500
    /\ RoleValidates(reg[2].role)
    /\ reg[2].username # reg[1].username
    /\ reg[2].email # reg[1].email
    /\ ToLowerCase(reg[2].email) = users[reg[1].id].email
    /\ Cardinality(DOMAIN users) = 1

\* The role of a registration is a word that is no role, or a list with such
\* a word
RoleIsInvalid(role) ==
    \/ role.t = "string" /\ role.s # "" /\ role.s \notin Roles
    \/ role.t = "array" /\ \E i \in 1..Len(role.a) : role.a[i] \notin Roles

RoleRegistrationStep ==
    \A p \in Procs :
        Answered(p) =>
            /\ RoleIsInvalid(reg'[p].role) => reg'[p].status >= 400 /\ users' = users
            /\ reg'[p].status = 200 =>
                 /\ reg'[p].id \in DOMAIN users' \ DOMAIN users
                 /\ DOMAIN users' = DOMAIN users \cup {reg'[p].id}
                 /\ users'[reg'[p].id].role =
                      IF reg'[p].role.t = "undefined" THEN "auxiliar" ELSE reg'[p].role.s
                 /\ users'[reg'[p].id].role \in Roles
                 /\ Len(reg'[p].issued) = 1
                 /\ reg'[p].issued[1].id = reg'[p].id
                 /\ reg'[p].issued[1].role = users'[reg'[p].id].role
                 /\ reg'[p].issued[1].email = users'[reg'[p].id].email

\* C22: a registration that is saved stores the role auxiliar when it carries
\* no role and the role it carries when that is admin, coordinador or
\* auxiliar, and its token carries the id, the role and the e-mail address
\* of the stored User; a registration whose role, or an item of whose role
\* list, is none of the three is rejected and no User is written.
C22_RegistrationRole == [][RoleRegistrationStep]_vars

\* C22 witness: a registration without a role was saved as auxiliar with its
\* token, one with the role coordinador was saved as coordinador, and one
\* with a word that is no role was rejected with no third User written.
C22_Witness ==
    /\ reg[1].pc = "done" /\ reg[1].status >= 400 /\ reg[1].role = JsString("root")
    /\ reg[2].pc = "done" /\ reg[2].status = 200 /\ reg[2].role = JsString("coordinador")
    /\ UserStored(reg[2].id) /\ users[reg[2].id].role = "coordinador"
    /\ reg[2].issued[1].role = "coordinador"
    /\ \E u \in DOMAIN users : u # reg[2].id /\ users[u].role = "auxiliar"
    /\ Cardinality(DOMAIN users) = 2

=============================================================================
